---------------------------- MODULE Spec2Model ----------------------------
(***************************************************************************)
(* A model of assistant_bot.py: the address book (AddressBook, Record,     *)
(* Phone, Birthday), the name normaliser, the command handlers and the     *)
(* command loop of main().                                                 *)
(*                                                                         *)
(* Python strings are modelled as sequences of one-character strings, so   *)
(* that lower(), capitalize(), split(), startswith() and the `in` test on  *)
(* strings are computed rather than assumed.                               *)
(***************************************************************************)
EXTENDS Integers, Sequences, FiniteSets, TLC

VARIABLES book, saved, result, pc, today, call

vars == <<book, saved, result, pc, today, call>>

(***************************************************************************)
(* Bounds of the model.                                                    *)
(***************************************************************************)
MaxLen == 3

NumPhones == 2

MaxPhones == 3

MaxRecords == 2

MaxContacts == 2

MaxWords == 2

MaxValues == 2

MaxDays == 80

DaysBefore == 1

DaysAfter == 8

-----------------------------------------------------------------------------
(***************************************************************************)
(* Characters and the string built-ins the program uses.                   *)
(***************************************************************************)
Digits == <<"0", "1", "2", "3", "4", "5", "6", "7", "8", "9">>

\* the letters of the model's alphabet: a, b, n, o in both cases
LowerCh(c) ==
    CASE c = "A" -> "a" [] c = "B" -> "b" [] c = "N" -> "n" [] c = "O" -> "o"
      [] OTHER -> c

UpperCh(c) ==
    CASE c = "a" -> "A" [] c = "b" -> "B" [] c = "n" -> "N" [] c = "o" -> "O"
      [] OTHER -> c

\* the value of a digit character, -1 for any other character
DigitVal(c) ==
    CASE c = "0" -> 0 [] c = "1" -> 1 [] c = "2" -> 2 [] c = "3" -> 3 [] c = "4" -> 4
      [] c = "5" -> 5 [] c = "6" -> 6 [] c = "7" -> 7 [] c = "8" -> 8 [] c = "9" -> 9
      [] OTHER -> -1

IsDigitCh(c) == DigitVal(c) >= 0

\* str.lower()
Lower(s) == [i \in 1..Len(s) |-> LowerCh(s[i])]

\* str.capitalize() with the rest left as typed: the slip a hand-written
\* capitalisation makes
CapitalizeKeepRest(s) == [i \in 1..Len(s) |-> IF i = 1 THEN UpperCh(s[i]) ELSE s[i]]

\* str.capitalize(): first character upper case, the rest lower case
Capitalize(s) == [i \in 1..Len(s) |-> IF i = 1 THEN UpperCh(s[i]) ELSE LowerCh(s[i])]

\* str.isdigit(): non-empty and every character a digit
IsDigitStr(s) == Len(s) > 0 /\ \A i \in 1..Len(s) : IsDigitCh(s[i])

\* sep.join(parts)
RECURSIVE Join(_, _)
Join(parts, sep) ==
    IF Len(parts) = 0 THEN <<>>
    ELSE IF Len(parts) = 1 THEN parts[1]
    ELSE parts[1] \o sep \o Join(Tail(parts), sep)

\* s.split(c): the pieces between occurrences of c, empty pieces kept
RECURSIVE SplitOn(_, _)
SplitOn(s, c) ==
    IF \E i \in 1..Len(s) : s[i] = c
    THEN LET k == CHOOSE i \in 1..Len(s) :
                      s[i] = c /\ \A j \in 1..(i - 1) : s[j] # c
         IN  <<SubSeq(s, 1, k - 1)>> \o SplitOn(SubSeq(s, k + 1, Len(s)), c)
    ELSE <<s>>

\* s.split(): the maximal runs of non-whitespace characters
SplitWs(s) == SelectSeq(SplitOn(s, " "), LAMBDA w : Len(w) > 0)

\* x in s, for strings
InStr(x, s) == \E i \in 0..(Len(s) - Len(x)) : SubSeq(s, i + 1, i + Len(x)) = x

\* s.startswith(x)
StartsWith(s, x) == Len(x) <= Len(s) /\ SubSeq(s, 1, Len(x)) = x

-----------------------------------------------------------------------------
(***************************************************************************)
(* normalize_name                                                          *)
(***************************************************************************)
MapSeq(f(_), s) == [i \in 1..Len(s) |-> f(s[i])]

fix_part(part) == Join(MapSeq(Capitalize, SplitOn(part, "-")), <<"-">>)

normalize_name(name) == Join(MapSeq(fix_part, SplitWs(name)), <<" ">>)

-----------------------------------------------------------------------------
(***************************************************************************)
(* Calendar dates (datetime.date): records [y, m, d].                      *)
(***************************************************************************)
IsLeap(y) == (y % 4 = 0 /\ y % 100 # 0) \/ y % 400 = 0

DaysInMonth(y, m) ==
    IF m = 2 THEN (IF IsLeap(y) THEN 29 ELSE 28)
    ELSE IF m \in {4, 6, 9, 11} THEN 30 ELSE 31

IsDate(y, m, d) == y >= 1 /\ y <= 9999 /\ m \in 1..12 /\ d >= 1 /\ d <= DaysInMonth(y, m)

RECURSIVE DaysBeforeMonth(_, _)
DaysBeforeMonth(y, m) ==
    IF m = 1 THEN 0 ELSE DaysBeforeMonth(y, m - 1) + DaysInMonth(y, m - 1)

\* date.toordinal(): 1 is 0001-01-01
ToOrdinal(dt) ==
    LET p == dt.y - 1
    IN  p * 365 + (p \div 4) - (p \div 100) + (p \div 400)
          + DaysBeforeMonth(dt.y, dt.m) + dt.d

\* date.weekday(): Monday is 0, Sunday is 6
Weekday(dt) == (ToOrdinal(dt) + 6) % 7

\* date < date
DateBefore(a, b) ==
    \/ a.y < b.y
    \/ a.y = b.y /\ a.m < b.m
    \/ a.y = b.y /\ a.m = b.m /\ a.d < b.d

NextDay(dt) ==
    IF dt.d < DaysInMonth(dt.y, dt.m) THEN [dt EXCEPT !.d = dt.d + 1]
    ELSE IF dt.m < 12 THEN [y |-> dt.y, m |-> dt.m + 1, d |-> 1]
    ELSE [y |-> dt.y + 1, m |-> 1, d |-> 1]

\* date + timedelta(days=k), k >= 0
RECURSIVE AddDays(_, _)
AddDays(dt, k) == IF k = 0 THEN dt ELSE AddDays(NextDay(dt), k - 1)

\* int() of a string of digits
RECURSIVE NumVal(_)
NumVal(s) ==
    IF Len(s) = 0 THEN 0
    ELSE 10 * NumVal(SubSeq(s, 1, Len(s) - 1)) + DigitVal(s[Len(s)])

\* datetime.strptime(value, "%d.%m.%Y").date(): <<date>>, or <<>> when
\* strptime raises ValueError.  %d and %m take one or two digits, %Y four.
ParseDate(s) ==
    LET parts == SplitOn(s, ".")
    IN  IF /\ Len(parts) = 3
           /\ \A i \in 1..3 : IsDigitStr(parts[i])
           /\ Len(parts[1]) \in 1..2
           /\ Len(parts[2]) \in 1..2
           /\ Len(parts[3]) = 4
           /\ IsDate(NumVal(parts[3]), NumVal(parts[2]), NumVal(parts[1]))
        THEN <<[y |-> NumVal(parts[3]), m |-> NumVal(parts[2]), d |-> NumVal(parts[1])]>>
        ELSE <<>>

\* the decimal digits of n, zero-padded to w characters
RECURSIVE Pad(_, _)
Pad(n, w) == IF w = 0 THEN <<>> ELSE Pad(n \div 10, w - 1) \o <<Digits[(n % 10) + 1]>>

\* date.strftime('%d.%m.%Y')
FormatDate(dt) == Pad(dt.d, 2) \o <<".">> \o Pad(dt.m, 2) \o <<".">> \o Pad(dt.y, 4)

-----------------------------------------------------------------------------
(***************************************************************************)
(* Field validators.  A failed construction is the ValueError the class    *)
(* raises, named by its message.                                           *)
(***************************************************************************)
\* Phone.__init__ accepts the value
PhoneOk(value) == IsDigitStr(value) /\ Len(value) = 10

\* Birthday.__init__: "" when it accepts the value, else the ValueError text
BirthdayError(value, now) ==
    IF ParseDate(value) = <<>> THEN "Invalid date format. Use DD.MM.YYYY"
    ELSE IF DateBefore(now, ParseDate(value)[1]) THEN "Birthday cannot be in the future."
    ELSE ""

-----------------------------------------------------------------------------
(***************************************************************************)
(* Record.  phones is the list of Phone values; birthday is <<>> for None  *)
(* and <<value>> for a Birthday.  The methods return [rec, ret].           *)
(***************************************************************************)
Record(name) == [name |-> name, phones |-> <<>>, birthday |-> <<>>]

RemoveAt(s, k) == SubSeq(s, 1, k - 1) \o SubSeq(s, k + 1, Len(s))

\* Record.find_phone: the position of the first phone with that value, 0 for None
find_phone(rec, phone) ==
    IF \E i \in 1..Len(rec.phones) : rec.phones[i] = phone
    THEN CHOOSE i \in 1..Len(rec.phones) :
             rec.phones[i] = phone /\ \A j \in 1..(i - 1) : rec.phones[j] # phone
    ELSE 0

add_phone(rec, phone) ==
    IF find_phone(rec, phone) > 0 THEN [rec |-> rec, ret |-> FALSE]
    ELSE IF PhoneOk(phone)
         THEN [rec |-> [rec EXCEPT !.phones = Append(rec.phones, phone)], ret |-> TRUE]
         ELSE [rec |-> rec, ret |-> FALSE]

remove_phone(rec, phone) ==
    LET k == find_phone(rec, phone)
    IN  IF k > 0
        THEN [rec |-> [rec EXCEPT !.phones = RemoveAt(rec.phones, k)], ret |-> TRUE]
        ELSE [rec |-> rec, ret |-> FALSE]

\* Record.edit_phone: the old phone is removed before Phone(new_phone) is
\* constructed, so a ValueError leaves it removed
edit_phone(rec, old_phone, new_phone) ==
    LET k == find_phone(rec, old_phone)
        removed == [rec EXCEPT !.phones = RemoveAt(rec.phones, k)]
    IN  IF k > 0
        THEN IF PhoneOk(new_phone)
             THEN [rec |-> [removed EXCEPT !.phones = Append(removed.phones, new_phone)],
                   ret |-> TRUE]
             ELSE [rec |-> removed, ret |-> FALSE]
        ELSE [rec |-> rec, ret |-> FALSE]

\* Record.__str__
Render(rec) ==
    rec.name \o <<":", " ">> \o Join(rec.phones, <<";", " ">>)
      \o (IF rec.birthday # <<>>
          THEN <<",", " ", "B", "i", "r", "t", "h", "d", "a", "y", ":", " ">> \o rec.birthday[1]
          ELSE <<>>)

-----------------------------------------------------------------------------
(***************************************************************************)
(* AddressBook: the dict `data`, a sequence of entries [key, rec] in       *)
(* insertion order with pairwise different keys.                           *)
(***************************************************************************)
KeyIndex(bk, key) ==
    IF \E i \in 1..Len(bk) : bk[i].key = key
    THEN CHOOSE i \in 1..Len(bk) : bk[i].key = key
    ELSE 0

\* add_record that appends without looking for the key
add_record_append(bk, record) == Append(bk, [key |-> record.name, rec |-> record])

\* AddressBook.add_record: self.data[record.name.value] = record
add_record(bk, record) ==
    IF KeyIndex(bk, record.name) > 0
    THEN [bk EXCEPT ![KeyIndex(bk, record.name)].rec = record]
    ELSE Append(bk, [key |-> record.name, rec |-> record])

\* the position of the first key equal to name after lower(), 0 if none
FirstFolded(bk, name) ==
    IF \E i \in 1..Len(bk) : Lower(bk[i].key) = Lower(name)
    THEN CHOOSE i \in 1..Len(bk) :
             /\ Lower(bk[i].key) = Lower(name)
             /\ \A j \in 1..(i - 1) : Lower(bk[j].key) # Lower(name)
    ELSE 0

\* AddressBook.find: the position of the record, 0 for None
find(bk, name) == FirstFolded(bk, name)

\* AddressBook.name_exists
name_exists(bk, name) == \E i \in 1..Len(bk) : Lower(name) = Lower(bk[i].key)

\* delete that compares the keys as stored
delete_exact(bk, name) ==
    IF KeyIndex(bk, name) > 0
    THEN [book |-> RemoveAt(bk, KeyIndex(bk, name)), ret |-> TRUE]
    ELSE [book |-> bk, ret |-> FALSE]

\* AddressBook.delete: [book, ret]
delete(bk, name) ==
    LET k == FirstFolded(bk, name)
    IN  IF k > 0 THEN [book |-> RemoveAt(bk, k), ret |-> TRUE]
        ELSE [book |-> bk, ret |-> FALSE]

\* search whose name test is a substring test, as show_phone's is
search_anywhere(bk, query) ==
    LET q == Lower(query)
        hit(e) == \/ InStr(q, Lower(e.rec.name))
                  \/ \E i \in 1..Len(e.rec.phones) : InStr(q, e.rec.phones[i])
    IN  MapSeq(LAMBDA e : Render(e.rec), SelectSeq(bk, hit))

\* AddressBook.search
search(bk, query) ==
    LET q == Lower(query)
        hit(e) == \/ StartsWith(Lower(e.rec.name), q)
                  \/ \E i \in 1..Len(e.rec.phones) : InStr(q, e.rec.phones[i])
    IN  MapSeq(LAMBDA e : Render(e.rec), SelectSeq(bk, hit))

-----------------------------------------------------------------------------
(***************************************************************************)
(* AddressBook.get_upcoming_birthdays                                      *)
(***************************************************************************)
\* date.replace(year=y): <<date>>, or <<>> when it raises ValueError
ReplaceYear(dt, y) ==
    IF IsDate(y, dt.m, dt.d) THEN <<[dt EXCEPT !.y = y]>> ELSE <<>>

\* the loop body with a birthday that falls today moved to next year
UpcomingLineNotToday(rec, now) ==
    IF rec.birthday = <<>> THEN <<>>
    ELSE IF ParseDate(rec.birthday[1]) = <<>> THEN <<>>
    ELSE
      LET birthday_date == ParseDate(rec.birthday[1])[1]
          end_date == AddDays(now, 7)
          this_year == ReplaceYear(birthday_date, now.y)
      IN  IF this_year = <<>> THEN <<>>
          ELSE
            LET moved == IF ~DateBefore(now, this_year[1])
                         THEN ReplaceYear(this_year[1], now.y + 1)
                         ELSE this_year
            IN  IF moved = <<>> THEN <<>>
                ELSE
                  LET birthday_this_year == moved[1]
                      congratulation_date ==
                          IF Weekday(birthday_this_year) = 5
                          THEN AddDays(birthday_this_year, 2)
                          ELSE IF Weekday(birthday_this_year) = 6
                          THEN AddDays(birthday_this_year, 1)
                          ELSE birthday_this_year
                  IN  IF /\ ~DateBefore(birthday_this_year, now)
                         /\ ~DateBefore(end_date, birthday_this_year)
                      THEN <<rec.name \o <<":", " ">> \o FormatDate(congratulation_date)>>
                      ELSE <<>>

\* the body of the loop for one record: <<line>> when the record is listed,
\* <<>> when it is skipped (no birthday, out of the window, or ValueError)
UpcomingLine(rec, now) ==
    IF rec.birthday = <<>> THEN <<>>
    ELSE IF ParseDate(rec.birthday[1]) = <<>> THEN <<>>
    ELSE
      LET birthday_date == ParseDate(rec.birthday[1])[1]
          end_date == AddDays(now, 7)
          this_year == ReplaceYear(birthday_date, now.y)
      IN  IF this_year = <<>> THEN <<>>
          ELSE
            LET moved == IF DateBefore(this_year[1], now)
                         THEN ReplaceYear(this_year[1], now.y + 1)
                         ELSE this_year
            IN  IF moved = <<>> THEN <<>>
                ELSE
                  LET birthday_this_year == moved[1]
                      congratulation_date ==
                          IF Weekday(birthday_this_year) = 5
                          THEN AddDays(birthday_this_year, 2)
                          ELSE IF Weekday(birthday_this_year) = 6
                          THEN AddDays(birthday_this_year, 1)
                          ELSE birthday_this_year
                  IN  IF /\ ~DateBefore(birthday_this_year, now)
                         /\ ~DateBefore(end_date, birthday_this_year)
                      THEN <<rec.name \o <<":", " ">> \o FormatDate(congratulation_date)>>
                      ELSE <<>>

RECURSIVE get_upcoming_birthdays(_, _)
get_upcoming_birthdays(bk, now) ==
    IF Len(bk) = 0 THEN <<>>
    ELSE UpcomingLine(bk[1].rec, now) \o get_upcoming_birthdays(Tail(bk), now)

-----------------------------------------------------------------------------
(***************************************************************************)
(* Command handlers.  An outcome is [book, text, arg, exc]: the address    *)
(* book after the call, the returned message (its fixed text and the       *)
(* string interpolated into it) and the exception that escaped, if any.    *)
(***************************************************************************)
Return(bk, text, arg) == [book |-> bk, text |-> text, arg |-> arg, exc |-> ""]

\* input_error: what the decorator makes of an exception raised by a handler
input_error(kind, text, bk) ==
    IF kind = "KeyError" THEN Return(bk, "Contact not found.", <<>>)
    ELSE IF kind = "ValueError" THEN Return(bk, text, <<>>)
    ELSE IF kind = "IndexError"
    THEN Return(bk, "Missing input. Please provide valid arguments.", <<>>)
    ELSE [book |-> bk, text |-> "Traceback", arg |-> <<>>, exc |-> kind]

JoinArgs(args) == Join(args, <<" ">>)

SetRec(bk, k, rec) == [bk EXCEPT ![k].rec = rec]

\* the loop `for phone in phones` of add_contact: the record after the phones
\* added so far, and the position of the phone add_phone refused (0 if none)
RECURSIVE AddPhones(_, _, _)
AddPhones(rec, phones, i) ==
    IF i > Len(phones) THEN [rec |-> rec, bad |-> 0]
    ELSE IF add_phone(rec, phones[i]).ret
         THEN AddPhones(add_phone(rec, phones[i]).rec, phones, i + 1)
         ELSE [rec |-> rec, bad |-> i]

MinOf(S) == CHOOSE x \in S : \A y \in S : x <= y

\* add_contact with the record stored before its phones are added
add_contact_stored_first(args, bk) ==
    LET firsts == {i \in 1..Len(args) : IsDigitStr(args[i]) /\ Len(args[i]) = 10}
    IN  IF Len(args) < 2
        THEN input_error("ValueError", "Please enter name and at least one phone number.", bk)
        ELSE IF firsts = {}
        THEN input_error("ValueError", "At least one valid phone number required (10 digits).", bk)
        ELSE
          LET phone_start_index == MinOf(firsts)
              name_parts == SubSeq(args, 1, phone_start_index - 1)
              phones == SubSeq(args, phone_start_index, Len(args))
              name == normalize_name(JoinArgs(name_parts))
              added == AddPhones(Record(name), phones, 1)
          IN  IF name_parts = <<>>
              THEN input_error("ValueError", "Name is missing.", bk)
              ELSE IF name_exists(bk, name)
              THEN Return(bk, "Contact with this name already exists.", <<>>)
              ELSE IF added.bad > 0
              THEN Return(add_record(bk, added.rec),
                          "Phone number '{phone}' already exists.", phones[added.bad])
              ELSE Return(add_record(bk, added.rec), "Contact added.", <<>>)

add_contact(args, bk) ==
    LET firsts == {i \in 1..Len(args) : IsDigitStr(args[i]) /\ Len(args[i]) = 10}
    IN  IF Len(args) < 2
        THEN input_error("ValueError", "Please enter name and at least one phone number.", bk)
        ELSE IF firsts = {}
        THEN input_error("ValueError", "At least one valid phone number required (10 digits).", bk)
        ELSE
          LET phone_start_index == MinOf(firsts)
              name_parts == SubSeq(args, 1, phone_start_index - 1)
              phones == SubSeq(args, phone_start_index, Len(args))
              name == normalize_name(JoinArgs(name_parts))
              added == AddPhones(Record(name), phones, 1)
          IN  IF name_parts = <<>>
              THEN input_error("ValueError", "Name is missing.", bk)
              ELSE IF name_exists(bk, name)
              THEN Return(bk, "Contact with this name already exists.", <<>>)
              ELSE IF added.bad > 0
              THEN Return(bk, "Phone number '{phone}' already exists.", phones[added.bad])
              ELSE Return(add_record(bk, added.rec), "Contact added.", <<>>)

edit_contact_name(args, bk) ==
    LET splits == {i \in 1..(Len(args) - 1) :
                      name_exists(bk, normalize_name(JoinArgs(SubSeq(args, 1, i))))}
    IN  IF Len(args) < 2
        THEN input_error("ValueError", "Please provide old and new full names.", bk)
        ELSE IF splits = {}
        THEN input_error("KeyError", "Contact not found.", bk)
        ELSE
          LET i == MinOf(splits)
              old_name == normalize_name(JoinArgs(SubSeq(args, 1, i)))
              new_name == normalize_name(JoinArgs(SubSeq(args, i + 1, Len(args))))
              record == bk[find(bk, old_name)].rec
              renamed == [record EXCEPT !.name = new_name]
          IN  Return(add_record(delete(bk, old_name).book, renamed),
                     "Contact name changed to '{new_name}'.", new_name)

change_contact(args, bk) ==
    IF Len(args) < 3
    THEN input_error("ValueError", "Please provide full name, old phone, and new phone.", bk)
    ELSE
      LET old_phone == args[Len(args) - 1]
          new_phone == args[Len(args)]
          name == normalize_name(JoinArgs(SubSeq(args, 1, Len(args) - 2)))
          k == find(bk, name)
      IN  IF ~(IsDigitStr(old_phone) /\ Len(old_phone) = 10)
          THEN input_error("ValueError", "Old phone number must be 10 digits.", bk)
          ELSE IF ~(IsDigitStr(new_phone) /\ Len(new_phone) = 10)
          THEN input_error("ValueError", "New phone number must be 10 digits.", bk)
          ELSE IF k = 0
          THEN input_error("KeyError", "Contact not found.", bk)
          ELSE
            LET r == edit_phone(bk[k].rec, old_phone, new_phone)
            IN  IF ~r.ret
                THEN Return(SetRec(bk, k, r.rec),
                            "Old phone number '{old_phone}' not found or new number invalid.",
                            old_phone)
                ELSE Return(SetRec(bk, k, r.rec), "Phone number updated.", <<>>)

add_phone_to_contact(args, bk) ==
    IF Len(args) < 2
    THEN input_error("ValueError", "Please provide name and phone number to add.", bk)
    ELSE
      LET possible_phone == args[Len(args)]
          name == normalize_name(JoinArgs(SubSeq(args, 1, Len(args) - 1)))
          k == find(bk, name)
      IN  IF ~IsDigitStr(possible_phone) \/ Len(possible_phone) # 10
          THEN input_error("ValueError", "Please provide a valid phone number (10 digits).", bk)
          ELSE IF k = 0
          THEN input_error("KeyError", "Contact not found.", bk)
          ELSE
            LET r == add_phone(bk[k].rec, possible_phone)
            IN  IF r.ret
                THEN Return(SetRec(bk, k, r.rec), "Phone number added.", <<>>)
                ELSE Return(SetRec(bk, k, r.rec),
                            "Phone number '{phone}' already exists for this contact.",
                            possible_phone)

cmd_remove_phone(args, bk) ==
    IF Len(args) < 2
    THEN input_error("ValueError", "Please provide full name and phone number to remove.", bk)
    ELSE
      LET possible_phone == args[Len(args)]
          name == normalize_name(JoinArgs(SubSeq(args, 1, Len(args) - 1)))
          k == find(bk, name)
      IN  IF ~IsDigitStr(possible_phone) \/ Len(possible_phone) # 10
          THEN input_error("ValueError", "Please provide a valid phone number (10 digits).", bk)
          ELSE IF k = 0
          THEN input_error("KeyError", "", bk)
          ELSE
            LET r == remove_phone(bk[k].rec, possible_phone)
            IN  IF ~r.ret
                THEN Return(SetRec(bk, k, r.rec),
                            "Phone number '{phone}' not found for this contact.",
                            possible_phone)
                ELSE Return(SetRec(bk, k, r.rec), "Phone number removed.", <<>>)

remove_contact(args, bk) ==
    LET name == normalize_name(JoinArgs(args))
        d == delete(bk, name)
    IN  IF Len(args) = 0
        THEN input_error("ValueError", "Please provide the contact name to remove.", bk)
        ELSE IF ~d.ret
        THEN input_error("KeyError", "Contact not found.", d.book)
        ELSE Return(d.book, "Contact '{name}' removed.", name)

cmd_add_birthday(args, bk, now) ==
    IF Len(args) < 2
    THEN input_error("ValueError", "Please provide name and birthday (DD.MM.YYYY).", bk)
    ELSE
      LET name == normalize_name(JoinArgs(SubSeq(args, 1, Len(args) - 1)))
          birthday == args[Len(args)]
          k == find(bk, name)
      IN  IF k = 0
          THEN input_error("KeyError", "", bk)
          ELSE IF bk[k].rec.birthday # <<>>
          THEN Return(bk, "Birthday already exists. Use 'editbday' to change it.", <<>>)
          ELSE IF BirthdayError(birthday, now) # ""
          THEN input_error("ValueError", BirthdayError(birthday, now), bk)
          ELSE Return(SetRec(bk, k, [bk[k].rec EXCEPT !.birthday = <<birthday>>]),
                      "Birthday added.", <<>>)

\* the contacts whose key contains the name, case-insensitively, in order
Matches(bk, name) == SelectSeq(bk, LAMBDA e : InStr(Lower(name), Lower(e.key)))

show_birthday(args, bk) ==
    LET name == normalize_name(JoinArgs(args))
        matches == Matches(bk, name)
        matches_with_birthday == SelectSeq(matches, LAMBDA e : e.rec.birthday # <<>>)
    IN  IF Len(args) = 0
        THEN input_error("ValueError", "Please provide the contact name.", bk)
        ELSE IF Len(matches) = 0
        THEN input_error("KeyError", "Contact not found.", bk)
        ELSE IF Len(matches) = 1
        THEN IF matches[1].rec.birthday # <<>>
             THEN Return(bk, "{name}'s birthday is {birthday}", matches[1].rec.name)
             ELSE Return(bk, "Birthday is not set for this contact.", <<>>)
        ELSE IF Len(matches_with_birthday) = 0
        THEN Return(bk, "None of the matching contacts have a birthday set.", <<>>)
        \* record.birthday.value is read for every match: None has no .value
        ELSE IF \E i \in 1..Len(matches) : matches[i].rec.birthday = <<>>
        THEN input_error("AttributeError", "'NoneType' object has no attribute 'value'", bk)
        ELSE Return(bk, "Found multiple contacts:{matches}", <<>>)

cmd_edit_birthday(args, bk, now) ==
    IF Len(args) < 2
    THEN input_error("ValueError", "Please provide name and new birthday (DD.MM.YYYY).", bk)
    ELSE
      LET name == normalize_name(JoinArgs(SubSeq(args, 1, Len(args) - 1)))
          birthday == args[Len(args)]
          k == find(bk, name)
      IN  IF k = 0
          THEN input_error("KeyError", "", bk)
          ELSE IF BirthdayError(birthday, now) # ""
          THEN input_error("ValueError", BirthdayError(birthday, now), bk)
          ELSE Return(SetRec(bk, k, [bk[k].rec EXCEPT !.birthday = <<birthday>>]),
                      "Birthday updated.", <<>>)

cmd_remove_birthday(args, bk) ==
    LET name == normalize_name(JoinArgs(args))
        k == find(bk, name)
    IN  IF Len(args) = 0
        THEN input_error("ValueError", "Please provide name to remove birthday.", bk)
        ELSE IF k = 0
        THEN input_error("KeyError", "", bk)
        ELSE Return(SetRec(bk, k, [bk[k].rec EXCEPT !.birthday = <<>>]),
                    "Birthday removed.", <<>>)

show_phone(args, bk) ==
    LET name == normalize_name(JoinArgs(args))
        matches == Matches(bk, name)
    IN  IF Len(args) = 0
        THEN input_error("ValueError", "Please provide the contact name.", bk)
        ELSE IF Len(matches) = 0
        THEN input_error("KeyError", "", bk)
        ELSE IF Len(matches) = 1
        THEN Return(bk, "{record}", Render(matches[1].rec))
        ELSE Return(bk, "Found multiple contacts:{records}", <<>>)

search_contacts(args, bk) ==
    IF Len(args) = 0
    THEN input_error("ValueError", "Please enter a name or phone to search.", bk)
    ELSE IF Len(search(bk, args[1])) > 0
    THEN Return(bk, "{results}", Join(search(bk, args[1]), <<"\n">>))
    ELSE Return(bk, "No matching contacts found.", <<>>)

upcoming_birthdays(bk, now) ==
    IF Len(get_upcoming_birthdays(bk, now)) > 0
    THEN Return(bk, "{upcoming}", Join(get_upcoming_birthdays(bk, now), <<"\n">>))
    ELSE Return(bk, "No upcoming birthdays in the next 7 days.", <<>>)

show_all(bk) ==
    IF Len(bk) = 0 THEN Return(bk, "No contacts saved.", <<>>)
    ELSE Return(bk, "{sorted records}", <<>>)

-----------------------------------------------------------------------------
(***************************************************************************)
(* Inputs.  Ph(k) is the 10-digit phone number made of the digit k.        *)
(***************************************************************************)
Ph(k) == [i \in 1..10 |-> Digits[k + 1]]

An == <<"A", "n">>

Bo == <<"B", "o">>

NoCall == [fn |-> "none"]

Today0 == [y |-> 2024, m |-> 6, d |-> 10]

-----------------------------------------------------------------------------
(***************************************************************************)
(* Spec: the command loop of main().  pc is "input" when the loop is about *)
(* to read a command, "output" when a command has been handled and its     *)
(* result printed, "done" after exit/close or an interrupt, "crashed" when *)
(* an exception has escaped the loop.  saved is the content of the file.   *)
(*                                                                         *)
(* A command line is a command word followed by the words of a name (at   *)
(* most MaxWords; for editname the words of two names, at most MaxWords+1  *)
(* together) and, for the commands that take them, at most MaxValues other *)
(* tokens: phone numbers and dates.  Names are made of name words.         *)
(* result is the text the handler returned, "" before the first command.   *)
(***************************************************************************)
NameTokens == {<<"a", "n">>, <<"A", "N">>, <<"b", "o">>}

\* a phone number, a date in the past, a date in the future
ValueTokens == {Ph(1),
                <<"1", "0", ".", "0", "6", ".", "2", "0", "0", "0">>,
                <<"1", "0", ".", "0", "6", ".", "2", "9", "9", "9">>}

NameLists == UNION {[1..n -> NameTokens] : n \in 0..MaxWords}

ValueLists == UNION {[1..n -> ValueTokens] : n \in 0..MaxValues}

\* <name words> <values>
ArgLists == {n \o v : n \in NameLists, v \in ValueLists}

\* <name words> <phones>: the tokens before the first valid phone number are
\* the name, so the values start with one or hold none
ContactLists ==
    {n \o v : n \in NameLists,
              v \in {w \in ValueLists :
                        \/ \A i \in 1..Len(w) : ~PhoneOk(w[i])
                        \/ PhoneOk(w[1])}}

\* <old name words> <new name words>
EditLists == UNION {[1..n -> NameTokens] : n \in 0..(MaxWords + 1)}

\* at most one token: search looks at args[0] alone
QueryLists == {<<>>} \cup {<<t>> : t \in NameTokens \cup ValueTokens}

\* the save words with editname's taken from the branch of changephone
SaveWordCopied(command) ==
    CASE command \in {"addcontact", "addphone", "addbday"} -> "added"
      [] command \in {"removecontact", "removephone", "removebday"} -> "removed"
      [] command \in {"editname", "changephone", "editbday"} -> "updated"
      [] OTHER -> ""

\* the word main() looks for in the lower-cased result before it saves
SaveWord(command) ==
    CASE command \in {"addcontact", "addphone", "addbday"} -> "added"
      [] command = "editname" -> "changed"
      [] command \in {"removecontact", "removephone", "removebday"} -> "removed"
      [] command \in {"changephone", "editbday"} -> "updated"
      [] OTHER -> ""

\* the save words that occur in the fixed text of a message
WordsIn(text) ==
    CASE text \in {"Contact added.", "Phone number added.", "Birthday added."} -> {"added"}
      [] text \in {"Contact '{name}' removed.", "Phone number removed.",
                   "Birthday removed."} -> {"removed"}
      [] text \in {"Phone number updated.", "Birthday updated."} -> {"updated"}
      [] text = "Contact name changed to '{new_name}'." -> {"changed"}
      [] OTHER -> {}

Letters(word) ==
    CASE word = "added" -> <<"a", "d", "d", "e", "d">>
      [] word = "changed" -> <<"c", "h", "a", "n", "g", "e", "d">>
      [] word = "removed" -> <<"r", "e", "m", "o", "v", "e", "d">>
      [] word = "updated" -> <<"u", "p", "d", "a", "t", "e", "d">>

\* word in result.lower()
InResult(word, out) ==
    word # "" /\ (word \in WordsIn(out.text) \/ InStr(Letters(word), Lower(out.arg)))

\* one pass of the loop for a command with a handler: the handler runs, its
\* result is printed, and the book is saved when the result holds the word
Handle(command, out) ==
    /\ Len(out.book) <= MaxContacts
    /\ book' = out.book
    /\ result' = out.text
    /\ pc' = IF out.exc = "" THEN "output" ELSE "crashed"
    /\ saved' = IF out.exc = "" /\ InResult(SaveWord(command), out)
                THEN out.book ELSE saved
    /\ UNCHANGED <<today, call>>

Init ==
    /\ book = <<>>
    /\ saved = <<>>
    /\ result = ""
    /\ pc = "input"
    /\ today = Today0
    /\ call = NoCall

AddContact ==
    \E args \in ContactLists :
        /\ pc = "input"
        /\ Handle("addcontact", add_contact(args, book))

EditName ==
    \E args \in EditLists :
        /\ pc = "input"
        /\ Handle("editname", edit_contact_name(args, book))

RemoveContact ==
    \E args \in NameLists :
        /\ pc = "input"
        /\ Handle("removecontact", remove_contact(args, book))

AddPhone ==
    \E args \in ArgLists :
        /\ pc = "input"
        /\ Handle("addphone", add_phone_to_contact(args, book))

ChangePhone ==
    \E args \in ArgLists :
        /\ pc = "input"
        /\ Handle("changephone", change_contact(args, book))

RemovePhone ==
    \E args \in ArgLists :
        /\ pc = "input"
        /\ Handle("removephone", cmd_remove_phone(args, book))

ShowPhone ==
    \E args \in NameLists :
        /\ pc = "input"
        /\ Handle("showphone", show_phone(args, book))

AddBday ==
    \E args \in ArgLists :
        /\ pc = "input"
        /\ Handle("addbday", cmd_add_birthday(args, book, today))

ShowBday ==
    \E args \in NameLists :
        /\ pc = "input"
        /\ Handle("showbday", show_birthday(args, book))

EditBday ==
    \E args \in ArgLists :
        /\ pc = "input"
        /\ Handle("editbday", cmd_edit_birthday(args, book, today))

RemoveBday ==
    \E args \in NameLists :
        /\ pc = "input"
        /\ Handle("removebday", cmd_remove_birthday(args, book))

Birthdays ==
    /\ pc = "input"
    /\ Handle("birthdays", upcoming_birthdays(book, today))

Search ==
    \E args \in QueryLists :
        /\ pc = "input"
        /\ Handle("search", search_contacts(args, book))

ShowAll ==
    /\ pc = "input"
    /\ Handle("all", show_all(book))

Hello ==
    /\ pc = "input"
    /\ Handle("hello", Return(book, "How can I help you?", <<>>))

Unknown ==
    /\ pc = "input"
    /\ Handle("", Return(book, "Unknown command. Try one of the following:", <<>>))

\* exit / close: save, say good bye, leave the loop
Exit ==
    /\ pc = "input"
    /\ saved' = book
    /\ result' = "Good bye!"
    /\ pc' = "done"
    /\ UNCHANGED <<book, today, call>>

\* KeyboardInterrupt while input() waits: save and end
Interrupt ==
    /\ pc = "input"
    /\ saved' = book
    /\ result' = "Address book saved successfully."
    /\ pc' = "done"
    /\ UNCHANGED <<book, today, call>>

\* while True: back to input()
NextCommand ==
    /\ pc = "output"
    /\ pc' = "input"
    /\ result' = ""
    /\ UNCHANGED <<book, saved, today, call>>

\* the program is started again: load_address_book reads the file
Restart ==
    /\ pc \in {"done", "crashed"}
    /\ book' = saved
    /\ result' = ""
    /\ pc' = "input"
    /\ UNCHANGED <<saved, today, call>>

Next ==
    \/ AddContact \/ EditName \/ RemoveContact
    \/ AddPhone \/ ChangePhone \/ RemovePhone \/ ShowPhone
    \/ AddBday \/ ShowBday \/ EditBday \/ RemoveBday \/ Birthdays
    \/ Search \/ ShowAll \/ Hello \/ Unknown
    \/ Exit \/ Interrupt \/ NextCommand \/ Restart

Spec == Init /\ [][Next]_vars

FoldedUnique(bk) ==
    \A i \in 1..Len(bk), j \in 1..Len(bk) : Lower(bk[i].key) = Lower(bk[j].key) => i = j

\* C1: no command is fatal: every handler returns a message and the loop goes
\* on to read the next command; it ends on exit/close or an interrupt only.
C1_NoCommandIsFatal == pc # "crashed"

\* C2: no two keys of the repository are equal after folding both to lowercase.
C2_NamesUnique == FoldedUnique(book)

\* an addcontact was refused because the name is taken, and the book holds
\* two contacts, one of them under "An"
C2_Witness ==
    /\ result = "Contact with this name already exists."
    /\ Len(book) = 2
    /\ \E i \in 1..Len(book) : book[i].key = An

\* C5: whenever the loop is about to read the next command, the saved snapshot
\* equals the repository in memory.
C5_SavedFollowsBook == pc = "input" => saved = book

\* the loop is back at input() after a contact with a phone and a birthday was
\* renamed to a two-word name, with a second contact in the book
C5_Witness ==
    /\ pc = "input"
    /\ saved = book
    /\ Len(book) = 2
    /\ book[2].key = An \o <<" ">> \o Bo
    /\ book[2].rec.phones = <<Ph(1)>>
    /\ book[2].rec.birthday # <<>>
    /\ book[1].rec.phones = <<>>

\* C10: a successful editname changes exactly one record: the number of
\* records is unchanged, the renamed record keeps its phones and birthday and
\* is stored under its new name, and every other record is still present
\* unchanged.
C10_EditNameFrame ==
    [][result' = "Contact name changed to '{new_name}'." =>
         /\ Len(book') = Len(book)
         /\ \E k \in 1..Len(book) :
                /\ \E j \in 1..Len(book') :
                       /\ book'[j].key = book'[j].rec.name
                       /\ book'[j].rec.phones = book[k].rec.phones
                       /\ book'[j].rec.birthday = book[k].rec.birthday
                /\ \A i \in (1..Len(book)) \ {k} :
                       \E j \in 1..Len(book') : book'[j] = book[i]]_vars


\* the messages the nine mutating commands return when they succeed
SuccessMessages ==
    {"Contact added.", "Contact name changed to '{new_name}'.",
     "Contact '{name}' removed.", "Phone number added.", "Phone number updated.",
     "Phone number removed.", "Birthday added.", "Birthday updated.",
     "Birthday removed."}

\* C11: a failed command changes nothing: a command that answers with any
\* message other than a success message (not found, invalid input, failed
\* validation, already exists) leaves the repository, that is the records with
\* their names, phone lists and birthdays, exactly as it was before the command.
C11_FailedCommandChangesNothing ==
    [][(pc = "input" /\ pc' = "output" /\ result' \notin SuccessMessages)
         => book' = book]_vars

\* addcontact with a valid first phone and a repeated or invalid later token
\* has answered, beside a contact whose birthday a repeated addbday left alone
C11_Witness ==
    /\ pc = "output"
    /\ result = "Phone number '{phone}' already exists."
    /\ Len(book) = 1
    /\ book[1].rec.birthday = <<<<"1", "0", ".", "0", "6", ".", "2", "0", "0", "0">>>>

-----------------------------------------------------------------------------
(***************************************************************************)
(* SpecRecord: the methods of one Record called in any order with valid    *)
(* and invalid phone strings.  call records the last call: its arguments,  *)
(* its return value and the phone list before it.                          *)
(***************************************************************************)
PhoneInputs == {Ph(k) : k \in 1..NumPhones} \cup {<<"1">>, <<"a", "n">>}

InitRecord ==
    /\ book = add_record(<<>>, Record(An))
    /\ saved = <<>>
    /\ result = "none"
    /\ pc = "record"
    /\ today = Today0
    /\ call = NoCall

RecAddPhone ==
    \E p \in PhoneInputs :
        LET r == add_phone(book[1].rec, p)
        IN  /\ pc = "record"
            /\ Len(book[1].rec.phones) < MaxPhones
            /\ book' = [book EXCEPT ![1].rec = r.rec]
            /\ call' = [fn |-> "add_phone", old |-> p, new |-> p, ret |-> r.ret,
                        before |-> book[1].rec.phones]
            /\ UNCHANGED <<saved, result, pc, today>>

RecRemovePhone ==
    \E p \in PhoneInputs :
        LET r == remove_phone(book[1].rec, p)
        IN  /\ pc = "record"
            /\ book' = [book EXCEPT ![1].rec = r.rec]
            /\ call' = [fn |-> "remove_phone", old |-> p, new |-> p, ret |-> r.ret,
                        before |-> book[1].rec.phones]
            /\ UNCHANGED <<saved, result, pc, today>>

RecEditPhone ==
    \E o \in PhoneInputs, n \in PhoneInputs :
        LET r == edit_phone(book[1].rec, o, n)
        IN  /\ pc = "record"
            /\ book' = [book EXCEPT ![1].rec = r.rec]
            /\ call' = [fn |-> "edit_phone", old |-> o, new |-> n, ret |-> r.ret,
                        before |-> book[1].rec.phones]
            /\ UNCHANGED <<saved, result, pc, today>>

NextRecord == RecAddPhone \/ RecRemovePhone \/ RecEditPhone

SpecRecord == InitRecord /\ [][NextRecord]_vars

NoDuplicates(s) == \A i \in 1..Len(s), j \in 1..Len(s) : s[i] = s[j] => i = j

Occurs(x, s) == \E i \in 1..Len(s) : s[i] = x

\* C3: a record's phone list never contains two entries with the same value.
C3_NoDuplicatePhones ==
    \A i \in 1..Len(book) : NoDuplicates(book[i].rec.phones)

\* the phones of s other than x, in their order
Others(s, x) == SelectSeq(s, LAMBDA p : p # x)

\* C4: edit_phone(old, new) returns false exactly when old is not on the
\* record or new is not a 10-digit string, and then the phone list is what it
\* was before the call; otherwise it returns true, old is no longer found, new
\* is found and every other phone is kept in its order.
C4_EditPhoneAtomic ==
    call.fn = "edit_phone" =>
        LET after == book[1].rec.phones
            fails == ~Occurs(call.old, call.before) \/ ~PhoneOk(call.new)
        IN  /\ call.ret = ~fails
            /\ fails => after = call.before
            /\ ~fails =>
                 /\ ~Occurs(call.old, after)
                 /\ Occurs(call.new, after)
                 /\ Others(Others(after, call.old), call.new)
                      = Others(Others(call.before, call.old), call.new)

-----------------------------------------------------------------------------
(***************************************************************************)
(* SpecBook: the methods of an AddressBook called in any order.  Records   *)
(* are added under names as given (add_record does not normalise), so two  *)
(* keys may differ in case only.                                           *)
(***************************************************************************)
BookNames == {An, <<"A", "N">>, An \o <<" ">> \o Bo, Bo \o <<" ">> \o An}

Queries == {<<"b", "o">>, <<"A", "N">>, <<"n">>, <<"1">>, Ph(2)}

InitBook ==
    /\ book = <<>>
    /\ saved = <<>>
    /\ result = "none"
    /\ pc = "book"
    /\ today = Today0
    /\ call = NoCall

BookAddRecord ==
    \E n \in BookNames, k \in 1..NumPhones :
        /\ pc = "book"
        /\ KeyIndex(book, n) > 0 \/ Len(book) < MaxRecords
        /\ book' = add_record(book, add_phone(Record(n), Ph(k)).rec)
        /\ call' = [fn |-> "add_record", arg |-> n, ret |-> <<>>, before |-> book]
        /\ UNCHANGED <<saved, result, pc, today>>

BookDelete ==
    \E n \in BookNames \cup {Bo} :
        LET r == delete(book, n)
        IN  /\ pc = "book"
            /\ book' = r.book
            /\ call' = [fn |-> "delete", arg |-> n, ret |-> r.ret, before |-> book]
            /\ UNCHANGED <<saved, result, pc, today>>

BookSearch ==
    \E q \in Queries :
        /\ pc = "book"
        /\ call' = [fn |-> "search", arg |-> q, ret |-> search(book, q), before |-> book]
        /\ UNCHANGED <<book, saved, result, pc, today>>

NextBook == BookAddRecord \/ BookDelete \/ BookSearch

SpecBook == InitBook /\ [][NextBook]_vars

\* C6: delete(name) returns true iff some key equals name after lowercase
\* folding; then exactly the first such record is removed and the others are
\* unchanged; when it returns false the repository is unchanged; and in a
\* repository with folded-unique keys the name is not found after a delete
\* that returned true.
C6_DeleteFrame ==
    call.fn = "delete" =>
        LET before == call.before
            hits == {i \in 1..Len(before) : Lower(before[i].key) = Lower(call.arg)}
        IN  /\ call.ret = (hits # {})
            /\ hits = {} => book = before
            /\ hits # {} =>
                 \E k \in hits :
                     /\ \A j \in hits : k <= j
                     /\ Len(book) = Len(before) - 1
                     /\ \A i \in 1..Len(book) :
                            book[i] = IF i < k THEN before[i] ELSE before[i + 1]
            /\ (hits # {} /\ FoldedUnique(before)) =>
                 /\ find(book, call.arg) = 0
                 /\ ~name_exists(book, call.arg)

\* delete("AN") has removed the first of the two records "An" and "AN"
C6_Witness ==
    /\ call.fn = "delete"
    /\ call.ret = TRUE
    /\ Len(call.before) = 2
    /\ ~FoldedUnique(call.before)
    /\ call.arg # call.before[1].key
    /\ Len(book) = 1
    /\ book[1] = call.before[2]

\* C7: search(query) returns the rendered form of exactly the records whose
\* name starts with query (case-insensitively) or one of whose phones contains
\* query, in insertion order, and leaves the repository unchanged.
C7_SearchResult ==
    call.fn = "search" =>
        LET q == call.arg
            hits == {i \in 1..Len(book) :
                        \/ StartsWith(Lower(book[i].rec.name), Lower(q))
                        \/ \E p \in 1..Len(book[i].rec.phones) :
                               InStr(q, book[i].rec.phones[p])}
            rank(i) == Cardinality({j \in hits : j <= i})
        IN  /\ book = call.before
            /\ Len(call.ret) = Cardinality(hits)
            /\ \A i \in hits : call.ret[rank(i)] = Render(book[i].rec)

\* search("bo") over "An Bo" and "Bo An" has returned "Bo An" alone
C7_Witness ==
    /\ call.fn = "search"
    /\ call.arg = <<"b", "o">>
    /\ Len(book) = 2
    /\ book[1].key = An \o <<" ">> \o Bo
    /\ book[2].key = Bo \o <<" ">> \o An
    /\ call.ret = <<Render(book[2].rec)>>

-----------------------------------------------------------------------------
(***************************************************************************)
(* SpecBday: get_upcoming_birthdays as the days pass.  The clock starts    *)
(* DaysBefore days after FirstDay - a Monday - and runs for MaxDays days,  *)
(* which takes in a turn of the year, from a year without a 29 February to *)
(* one with it, and that 29 February.  On any day a book of one or two records is set up:  *)
(* a record has no birthday, or one on a day from DaysBefore days before   *)
(* today to DaysAfter days after it, or on one of four fixed days of the   *)
(* year.  call.day counts the days from FirstDay to today and call.base is *)
(* the date DaysBefore days before today.                                  *)
(***************************************************************************)
FirstDay == [y |-> 2023, m |-> 12, d |-> 18]

BornIn(dt) == FormatDate([y |-> 2000, m |-> dt.m, d |-> dt.d])

FixedBirthdays ==
    {BornIn([m |-> 1, d |-> 1]), BornIn([m |-> 2, d |-> 29]),
     BornIn([m |-> 7, d |-> 15]), BornIn([m |-> 12, d |-> 31])}

BirthdayChoices(base) ==
    {<<>>} \cup {<<b>> : b \in FixedBirthdays}
           \cup {<<BornIn(AddDays(base, j))>> : j \in 0..(DaysBefore + DaysAfter)}

InitBday ==
    /\ today = AddDays(FirstDay, DaysBefore)
    /\ book = <<>>
    /\ call = [fn |-> "clock", day |-> DaysBefore, base |-> FirstDay]
    /\ saved = <<>>
    /\ result = "none"
    /\ pc = "bday"

\* midnight: datetime.today() moves on one day
Tick ==
    /\ pc = "bday"
    /\ call.fn = "clock"
    /\ call.day < MaxDays
    /\ today' = NextDay(today)
    /\ call' = [call EXCEPT !.day = call.day + 1, !.base = NextDay(call.base)]
    /\ UNCHANGED <<book, saved, result, pc>>

\* the book the query runs on
Populate ==
    \E b1 \in BirthdayChoices(call.base), b2 \in BirthdayChoices(call.base), n \in 1..2 :
        /\ pc = "bday"
        /\ call.fn = "clock"
        /\ book' = SubSeq(<<[key |-> An, rec |-> [Record(An) EXCEPT !.birthday = b1]],
                            [key |-> Bo, rec |-> [Record(Bo) EXCEPT !.birthday = b2]]>>,
                          1, n)
        /\ call' = [call EXCEPT !.fn = "input"]
        /\ UNCHANGED <<saved, result, pc, today>>

CallUpcoming ==
    /\ pc = "bday"
    /\ call.fn = "input"
    /\ call' = [fn |-> "get_upcoming_birthdays", day |-> call.day, base |-> call.base,
                ret |-> get_upcoming_birthdays(book, today)]
    /\ UNCHANGED <<book, saved, result, pc, today>>

NextBday == Tick \/ Populate \/ CallUpcoming

SpecBday == InitBday /\ [][NextBday]_vars

\* the days j in 0..7 on which today + j has the day and month of the birthday
Occurrences(rec, now) ==
    {j \in 0..7 : LET dt == AddDays(now, j)
                      b == ParseDate(rec.birthday[1])[1]
                  IN  dt.m = b.m /\ dt.d = b.d}

\* the date a listed line ends with
ListedDate(line) == ParseDate(SubSeq(line, Len(line) - 9, Len(line)))[1]

\* C8: a record with a birthday is listed iff the next occurrence of its day
\* and month on or after today is at most 7 days away; the listed date is that
\* occurrence, moved 2 days on from a Saturday and 1 day on from a Sunday, so
\* it is not a Saturday or Sunday and not before today; records are listed in
\* insertion order.  The day of the week of today + j is (call.day + j) % 7,
\* FirstDay being a Monday.
C8_UpcomingBirthdays ==
    call.fn = "get_upcoming_birthdays" =>
        LET listed == {i \in 1..Len(book) :
                          /\ book[i].rec.birthday # <<>>
                          /\ Occurrences(book[i].rec, today) # {}}
            rank(i) == Cardinality({j \in listed : j <= i})
        IN  /\ Len(call.ret) = Cardinality(listed)
            /\ \A i \in listed :
                   LET j == MinOf(Occurrences(book[i].rec, today))
                       wd == (call.day + j) % 7
                       shift == IF wd = 5 THEN 2 ELSE IF wd = 6 THEN 1 ELSE 0
                       line == call.ret[rank(i)]
                   IN  /\ line = book[i].rec.name \o <<":", " ">>
                                   \o FormatDate(AddDays(today, j + shift))
                       /\ (call.day + j + shift) % 7 \notin {5, 6}
                       /\ ~DateBefore(ListedDate(line), today)
                       /\ Weekday(ListedDate(line)) \notin {5, 6}

\* on Wednesday 27 December 2023, of two records the first has its birthday
\* on 1 January and the second on a Saturday: both are listed, in order, the
\* second on the Monday after
C8_Witness ==
    /\ call.fn = "get_upcoming_birthdays"
    /\ today = [y |-> 2023, m |-> 12, d |-> 27]
    /\ Len(book) = 2
    /\ book[1].rec.birthday = <<BornIn([m |-> 1, d |-> 1])>>
    /\ book[2].rec.birthday = <<BornIn([m |-> 12, d |-> 30])>>
    /\ call.ret = <<An \o <<":", " ">> \o FormatDate([y |-> 2024, m |-> 1, d |-> 1]),
                    Bo \o <<":", " ">> \o FormatDate([y |-> 2024, m |-> 1, d |-> 1])>>

-----------------------------------------------------------------------------
(***************************************************************************)
(* SpecNorm: normalize_name applied to every pair of strings of at most    *)
(* MaxLen characters over letters of both cases, the hyphen and the space. *)
(***************************************************************************)
NormAlphabet == {"a", "A", "-", " "}

NormStrings == UNION {[1..n -> NormAlphabet] : n \in 0..MaxLen}

InitNorm ==
    /\ book = <<>>
    /\ saved = <<>>
    /\ result = "none"
    /\ pc = "norm"
    /\ today = Today0
    /\ \E x \in NormStrings, y \in NormStrings :
           call = [fn |-> "input", x |-> x, y |-> y]

ApplyNormalize ==
    /\ pc = "norm"
    /\ call.fn = "input"
    /\ call' = [fn |-> "normalize_name", x |-> call.x, y |-> call.y,
                nx |-> normalize_name(call.x),
                ny |-> normalize_name(call.y),
                nnx |-> normalize_name(normalize_name(call.x))]
    /\ UNCHANGED <<book, saved, result, pc, today>>

NextNorm == ApplyNormalize

SpecNorm == InitNorm /\ [][NextNorm]_vars

\* lowercase folding and whitespace collapsing of an input
Fold(s) == Join(SplitWs(Lower(s)), <<" ">>)

\* C9: normalize_name is idempotent, and two inputs that are equal after
\* lowercase folding and whitespace collapsing normalise to the same string.
C9_NormalizeIdempotent ==
    call.fn = "normalize_name" =>
        /\ call.nnx = call.nx
        /\ (Fold(call.x) = Fold(call.y) => call.nx = call.ny)

\* two inputs that differ in case and spacing have been normalised, and the
\* normal form differs from the input
C9_Witness ==
    /\ call.fn = "normalize_name"
    /\ call.x # call.y
    /\ Fold(call.x) = Fold(call.y)
    /\ call.nx # call.x
    /\ call.nx = <<"A", "-", "A">>

=============================================================================
